---- MODULE Spec2Model ----
(***************************************************************************)
(* Task bot: the SQLite task store (database.py), the slash commands       *)
(* (taskBot.py) and the button callbacks (views.py), with the messaging    *)
(* surface (Discord channels and messages) as the environment.             *)
(***************************************************************************)
EXTENDS Integers, FiniteSets, Sequences, TLC

\* ------------------------------------------------------------------ bounds
MaxTasks == 2      \* rows the AUTOINCREMENT counter may hand out
MaxPosts == 4      \* messages posted in one run
MaxOps == 2        \* invocations in one run of overlapping handlers
MaxSeqOps == 2     \* invocations in one run of handlers that do not overlap
MaxStoreOps == 2   \* direct store calls in one run
MaxFaults == 1     \* injected storage or surface failures per run

\* ------------------------------------------------------------- value sets
Null == 0                       \* SQL NULL / Python None in an id column
Guilds == {1, 2}
Users == {1, 2}
Creators == {1}                 \* who runs /addtask
Procs == {1, 2}                 \* concurrently running coroutines
TaskIds == 1 .. MaxTasks
MsgIds == 1 .. (2 * MaxTasks + MaxPosts)
Slots == {"open", "inprogress", "completed"}
NoRow == [status |-> "none"]    \* fetchone() returning None
Unread == [status |-> "unread"] \* a local not assigned yet
\* The channels of guild g: one text channel per role, ids g*10 + 1..3.
ChannelFor(g, slot) ==
    g * 10 + (CASE slot = "open" -> 1 [] slot = "inprogress" -> 2 [] OTHER -> 3)
NoGuild == [open |-> Null, inprogress |-> Null, completed |-> Null, row |-> FALSE]

VARIABLES
    tasks,      \* table tasks: task_id -> row, or NoRow
    seq,        \* sqlite_sequence of tasks (AUTOINCREMENT)
    guilds,     \* table guilds: guild_id -> channel ids
    live,       \* the surface: messages that exist
    nextMsg,    \* the surface: last message id handed out
    procs,      \* the running coroutines: position and locals
    running,    \* the coroutine holding the event loop between two awaits
    deploy,     \* how the bot runs: par (parallel workers or one event loop),
                \* width (handlers that may overlap), ops, msgs, faults (run limits)
    ops,        \* invocations started so far
    faults,     \* failures injected so far
    last,       \* the last direct store call and what it returned
    won,        \* history: per task, the users whose claim_task returned True
    prev        \* history: the guild whose resync just ended cleanly, or 0

vars == <<tasks, seq, guilds, live, nextMsg, procs, running, deploy, ops, faults, last,
          won, prev>>

\* --------------------------------------------------------------- database.py

Row(g, c) ==
    [status |-> "open", guild |-> g, creator |-> c, assignee |-> Null,
     open_message_id |-> Null, inprogress_message_id |-> Null]

Present(T, t) == t \in DOMAIN T /\ T[t] # NoRow

\* set_channel: INSERT OR IGNORE the guild row, then UPDATE one column.
set_channel(G, g, type, ch, ok) ==
    IF type \notin Slots \/ ~ok
    THEN [guilds |-> G, ret |-> FALSE]
    ELSE [guilds |-> [G EXCEPT ![g] = [@ EXCEPT ![type] = ch, !.row = TRUE]],
          ret |-> TRUE]

\* get_channel_ids: the row's three columns, or None when there is no row.
get_channel_ids(G, g) == IF G[g].row THEN G[g] ELSE NoGuild

\* The routes test looking at the open route only.
RoutesMissingOpenOnly(cfg) == ~cfg.row \/ cfg.open = Null

\* `not channel_ids or not channel_ids.get('open') or not ...get('inprogress')`
RoutesMissing(cfg) == ~cfg.row \/ cfg.open = Null \/ cfg.inprogress = Null

\* add_task on a table declared without AUTOINCREMENT: the id is the largest
\* rowid present + 1, so the id of a deleted last row is handed out again.
add_task_max_rowid(T, s, g, c, ok) ==
    LET top == Cardinality({t \in DOMAIN T : \E u \in DOMAIN T : u >= t /\ Present(T, u)})
    IN  IF ~ok
        THEN [tasks |-> T, seq |-> s, ret |-> Null]
        ELSE [tasks |-> [T EXCEPT ![top + 1] = Row(g, c)], seq |-> top + 1,
              ret |-> top + 1]

\* add_task: INSERT with status 'open'; the id is the AUTOINCREMENT counter + 1.
add_task(T, s, g, c, ok) ==
    IF ~ok
    THEN [tasks |-> T, seq |-> s, ret |-> Null]
    ELSE [tasks |-> [T EXCEPT ![s + 1] = Row(g, c)], seq |-> s + 1, ret |-> s + 1]

get_task_by_id(T, t) == IF Present(T, t) THEN T[t] ELSE NoRow

\* get_tasks_by_status with `guild_id = ?` left out of its WHERE clause.
get_tasks_by_status_any_guild(T, g, status) ==
    {t \in DOMAIN T : Present(T, t) /\ T[t].status = status}

\* get_tasks_by_status: the ids of the guild's rows in that status (no ORDER BY).
get_tasks_by_status(T, g, status) ==
    {t \in DOMAIN T : Present(T, t) /\ T[t].guild = g /\ T[t].status = status}

MessageColumn(type) ==
    IF type = "open" THEN "open_message_id" ELSE "inprogress_message_id"

\* The UNIQUE constraint of one column: another row already stores m there.
UniqueViolation(T, t, type, m) ==
    /\ m # Null
    /\ \E u \in DOMAIN T : u # t /\ Present(T, u) /\ T[u][MessageColumn(type)] = m

\* update_task_message_id: UPDATE one message column of one row.
update_task_message_id(T, t, type, m, ok) ==
    IF type \notin {"open", "inprogress"} \/ ~ok
    THEN [tasks |-> T, ret |-> FALSE]
    ELSE IF ~Present(T, t)
    THEN [tasks |-> T, ret |-> TRUE]
    ELSE IF UniqueViolation(T, t, type, m)
    THEN [tasks |-> T, ret |-> FALSE]
    ELSE [tasks |-> [T EXCEPT ![t] = [@ EXCEPT ![MessageColumn(type)] = m]],
          ret |-> TRUE]

\* claim_task with `assignee_id = ?` left out of its SET list.
claim_task_no_assignee(T, t, a, ok) ==
    IF ok /\ Present(T, t) /\ T[t].status = "open"
    THEN [tasks |-> [T EXCEPT ![t] = [@ EXCEPT !.status = "in_progress"]],
          ret |-> TRUE]
    ELSE [tasks |-> T, ret |-> FALSE]

\* claim_task with its WHERE clause cut to `task_id = ?`.
claim_task_unguarded(T, t, a, ok) ==
    IF ok /\ Present(T, t)
    THEN [tasks |-> [T EXCEPT ![t] = [@ EXCEPT !.status = "in_progress",
                                              !.assignee = a]],
          ret |-> TRUE]
    ELSE [tasks |-> T, ret |-> FALSE]

\* claim_task: UPDATE ... WHERE task_id = ? AND status = 'open'.
claim_task(T, t, a, ok) ==
    IF ok /\ Present(T, t) /\ T[t].status = "open"
    THEN [tasks |-> [T EXCEPT ![t] = [@ EXCEPT !.status = "in_progress",
                                              !.assignee = a]],
          ret |-> TRUE]
    ELSE [tasks |-> T, ret |-> FALSE]

\* complete_task_in_db with its WHERE clause asking for status = 'open'.
complete_task_in_db_open_rows(T, t, ok) ==
    IF ok /\ Present(T, t) /\ T[t].status = "open"
    THEN [tasks |-> [T EXCEPT ![t] = NoRow], ret |-> TRUE]
    ELSE [tasks |-> T, ret |-> FALSE]

\* complete_task_in_db: DELETE ... WHERE task_id = ? AND status = 'in_progress'.
complete_task_in_db(T, t, ok) ==
    IF ok /\ Present(T, t) /\ T[t].status = "in_progress"
    THEN [tasks |-> [T EXCEPT ![t] = NoRow], ret |-> TRUE]
    ELSE [tasks |-> T, ret |-> FALSE]

\* Rows a message id selects: open_message_id = ? OR inprogress_message_id = ?
\* (a NULL column equals nothing, so the placeholder id 0 selects no row).
RowsOfMessage(T, m) ==
    {t \in DOMAIN T : /\ Present(T, t)
                      /\ \/ (T[t].open_message_id # Null /\ T[t].open_message_id = m)
                         \/ (T[t].inprogress_message_id # Null
                             /\ T[t].inprogress_message_id = m)}

StoredRefs(T) ==
    ({T[t].open_message_id : t \in {u \in DOMAIN T : Present(T, u)}}
       \cup {T[t].inprogress_message_id : t \in {u \in DOMAIN T : Present(T, u)}})
    \ {Null}

\* remove_task_by_message_id with its WHERE clause cut to `open_message_id = ?`.
remove_task_by_open_message_id(T, m, ok) ==
    LET rows == {t \in DOMAIN T : Present(T, t) /\ T[t].open_message_id # Null
                                  /\ T[t].open_message_id = m}
    IN  IF ok /\ rows # {}
        THEN [tasks |-> [t \in DOMAIN T |-> IF t \in rows THEN NoRow ELSE T[t]],
              ret |-> TRUE]
        ELSE [tasks |-> T, ret |-> FALSE]

\* remove_task_by_message_id: DELETE the rows the message id selects.
remove_task_by_message_id(T, m, ok) ==
    IF ok /\ RowsOfMessage(T, m) # {}
    THEN [tasks |-> [t \in DOMAIN T |-> IF t \in RowsOfMessage(T, m) THEN NoRow ELSE T[t]],
          ret |-> TRUE]
    ELSE [tasks |-> T, ret |-> FALSE]

\* cleanup_guild_data: DELETE the guild's tasks and its guilds row.
cleanup_guild_data(T, G, g, ok) ==
    IF ~ok
    THEN [tasks |-> T, guilds |-> G]
    ELSE [tasks |-> [t \in DOMAIN T |->
                        IF Present(T, t) /\ T[t].guild = g THEN NoRow ELSE T[t]],
          guilds |-> [G EXCEPT ![g] = NoGuild]]


\* ------------------------------------------------------- messaging surface

\* A message: its id, its channel, what it shows and the task it shows.
Message(id, ch, kind, t) == [id |-> id, chan |-> ch, kind |-> kind, task |-> t]

IsLive(m) == \E x \in live : x.id = m

\* channel.fetch_message(m): the message exists in that channel.
fetch_message(ch, m) == \E x \in live : x.id = m /\ x.chan = ch

\* channel.send: a new message with a fresh id.
Send(ch, kind, t) ==
    /\ nextMsg < deploy.msgs
    /\ nextMsg' = nextMsg + 1
    /\ live' = live \cup {Message(nextMsg + 1, ch, kind, t)}

\* message.delete() on a message that exists.
Delete(m) ==
    /\ live' = {x \in live : x.id # m}
    /\ nextMsg' = nextMsg

SurfaceSame == UNCHANGED <<live, nextMsg>>
StoreSame == UNCHANGED <<tasks, seq, guilds>>

\* A storage or surface call fails (sqlite3.Error, discord.Forbidden,
\* discord.HTTPException, a channel that no longer resolves).
Fault == faults < deploy.faults /\ faults' = faults + 1
NoFault == faults' = faults

\* ------------------------------------------------------------- coroutines

Idle ==
    [op |-> "idle", pc |-> "idle", guild |-> 0, user |-> 0, task |-> 0, msg |-> 0,
     cfg |-> NoGuild, data |-> Unread, new |-> Null, todo |-> {}, cur |-> 0,
     old |-> Null, phase |-> "none", resp |-> {}, resynced_open |-> {},
     resynced_inprogress |-> {}, errors |-> {}, posts |-> {}, cas |-> "none",
     faulted |-> FALSE, raised |-> FALSE, second |-> FALSE, pre |-> <<>>]

\* One event loop: between two awaits a coroutine is not interleaved with the
\* others. With parallel workers (par) every store call is a step of its own.
CanRun(p) == running \in {0, p}
Sched(p, hold) == running' = IF deploy.par \/ ~hold THEN 0 ELSE p

Goto(p, pc, rec) == procs' = [procs EXCEPT ![p] = [rec EXCEPT !.pc = pc]]

\* The handler's last statement has run (or an exception has left it). The
\* coroutine object is dropped by Return before anything else runs.
Finish(p, rec) ==
    /\ procs' = [procs EXCEPT ![p] = [rec EXCEPT !.pc = "done"]]
    /\ running' = p

Say(rec, r) == [rec EXCEPT !.resp = @ \cup {r}]
At(p, op, pc) == procs[p].op = op /\ procs[p].pc = pc /\ CanRun(p)
Begin(p, rec) ==
    /\ procs[p].pc = "idle"
    /\ p <= deploy.width
    /\ \A q \in Procs : q < p => procs[q].pc # "idle"
    /\ running = 0
    /\ ops < deploy.ops
    /\ ops' = ops + 1
    /\ procs' = [procs EXCEPT ![p] = rec]
    /\ prev' = 0
    /\ UNCHANGED <<tasks, seq, guilds, live, nextMsg, running, deploy, faults, last, won>>

Frame == UNCHANGED <<deploy, ops, last, won, prev>>
FrameButWon == UNCHANGED <<deploy, ops, last, prev>>

\* A resync that ran to its summary with no failure and no recorded error.
CleanResync(rec) ==
    /\ rec.op = "resync"
    /\ rec.resp = {"summary"}
    /\ rec.errors = {}
    /\ ~rec.faulted

Return(p) ==
    /\ procs[p].pc = "done"
    /\ running = p
    /\ procs' = [procs EXCEPT ![p] = Idle]
    /\ running' = 0
    /\ prev' = IF deploy.width = 1 /\ CleanResync(procs[p]) THEN procs[p].guild ELSE 0
    /\ UNCHANGED <<tasks, seq, guilds, live, nextMsg, deploy, ops, faults, last, won>>


\* ------------------------------------------------- taskBot.py: add_task_cmd

AddStart(p) ==
    /\ seq + Cardinality({q \in Procs : procs[q].pc \in {"a_cfg", "a_ins"}}) < MaxTasks
    /\ \E g \in Guilds, u \in Creators :
          Begin(p, [Idle EXCEPT !.op = "add", !.pc = "a_cfg", !.guild = g, !.user = u])

\* db.get_channel_ids and the test that both routes are set.
AddConfig(p) ==
    /\ At(p, "add", "a_cfg")
    /\ LET r == procs[p]
           cfg == get_channel_ids(guilds, r.guild)
       IN  IF RoutesMissing(cfg)
           THEN Finish(p, Say(r, "misconfigured"))
           ELSE Goto(p, "a_ins", [r EXCEPT !.cfg = cfg]) /\ Sched(p, TRUE)
    /\ StoreSame /\ SurfaceSame /\ NoFault /\ Frame

\* db.add_task; `if not task_id` answers with a storage error.
AddInsert(p) ==
    /\ At(p, "add", "a_ins")
    /\ LET r == procs[p] IN
       \/ /\ NoFault
          /\ LET a == add_task(tasks, seq, r.guild, r.user, TRUE) IN
                /\ tasks' = a.tasks
                /\ seq' = a.seq
                /\ Goto(p, "a_chan", [r EXCEPT !.task = a.ret]) /\ Sched(p, TRUE)
       \/ /\ Fault
          /\ LET a == add_task(tasks, seq, r.guild, r.user, FALSE) IN
                /\ tasks' = a.tasks
                /\ seq' = a.seq
                /\ Finish(p, Say([r EXCEPT !.faulted = TRUE], "storage_error"))
    /\ UNCHANGED guilds /\ SurfaceSame /\ Frame

\* bot.get_channel(open id), then db.get_task_by_id.
AddChannel(p) ==
    /\ At(p, "add", "a_chan")
    /\ LET r == procs[p] IN
       \/ /\ NoFault
          /\ LET data == get_task_by_id(tasks, r.task) IN
                IF data = NoRow
                THEN Finish(p, Say(r, "retrieve_failed"))
                ELSE Goto(p, "a_post", [r EXCEPT !.data = data]) /\ Sched(p, FALSE)
       \/ /\ Fault
          /\ Finish(p, Say([r EXCEPT !.faulted = TRUE], "channel_invalid"))
    /\ StoreSame /\ SurfaceSame /\ Frame

\* await open_channel.send; the except branches answer "Task not created".
AddPost(p) ==
    /\ At(p, "add", "a_post")
    /\ LET r == procs[p] IN
       \/ /\ NoFault
          /\ Send(r.cfg.open, "open", r.task)
          /\ Goto(p, "a_link", [r EXCEPT !.new = nextMsg + 1,
                                         !.posts = @ \cup {nextMsg + 1}])
          /\ Sched(p, TRUE)
       \/ /\ Fault
          /\ SurfaceSame
          /\ Goto(p, "a_cleanup", Say([r EXCEPT !.faulted = TRUE], "not_created"))
          /\ Sched(p, FALSE)
    /\ StoreSame /\ Frame

\* AddLink storing the new message in the in-progress column.
AddLinkWrongSlot(p) ==
    /\ At(p, "add", "a_link")
    /\ LET r == procs[p]
           u == update_task_message_id(tasks, r.task, "inprogress", r.new, TRUE)
       IN  /\ tasks' = u.tasks
           /\ Finish(p, Say(r, "added"))
    /\ UNCHANGED <<seq, guilds>> /\ SurfaceSame /\ NoFault /\ Frame

\* db.update_task_message_id(task_id, 'open', new_task_message.id).
AddLink(p) ==
    /\ At(p, "add", "a_link")
    /\ LET r == procs[p] IN
       \/ /\ NoFault
          /\ LET u == update_task_message_id(tasks, r.task, "open", r.new, TRUE) IN
                /\ tasks' = u.tasks
                /\ IF u.ret
                   THEN Finish(p, Say(r, "added"))
                   ELSE Goto(p, "a_unpost", r) /\ Sched(p, FALSE)
       \/ /\ Fault
          /\ tasks' = update_task_message_id(tasks, r.task, "open", r.new, FALSE).tasks
          /\ Goto(p, "a_unpost", [r EXCEPT !.faulted = TRUE]) /\ Sched(p, FALSE)
    /\ UNCHANGED <<seq, guilds>> /\ SurfaceSame /\ Frame

\* await new_task_message.delete() after the link failed.
AddUnpost(p) ==
    /\ At(p, "add", "a_unpost")
    /\ LET r == procs[p] IN
       \/ /\ IsLive(r.new)
          /\ NoFault
          /\ Delete(r.new)
          /\ Finish(p, Say(r, "link_failed"))
       \/ /\ IF IsLive(r.new) THEN Fault ELSE NoFault
          /\ SurfaceSame
          /\ Goto(p, "a_cleanup", Say([r EXCEPT !.faulted = TRUE], "not_created"))
          /\ Sched(p, FALSE)
    /\ StoreSame /\ Frame

\* db.remove_task_by_message_id(new_task_message.id if new_task_message else 0).
AddCleanup(p) ==
    /\ At(p, "add", "a_cleanup")
    /\ LET r == procs[p] IN
          /\ tasks' = remove_task_by_message_id(tasks, r.new, TRUE).tasks
          /\ Finish(p, r)
    /\ UNCHANGED <<seq, guilds>> /\ SurfaceSame /\ NoFault /\ Frame

add_task_cmd(p) ==
    \/ AddStart(p) \/ AddConfig(p) \/ AddInsert(p) \/ AddChannel(p)
    \/ AddPost(p) \/ AddLink(p) \/ AddUnpost(p) \/ AddCleanup(p)

\* --------------------------------------------- views.py: ClaimButton.callback

\* The messages that carry a button of that kind for some task.
Buttons(kind) == {x \in live : x.kind = kind}
GuildOf(ch) == ch \div 10

ClaimStart(p) ==
    \E x \in Buttons("open"), u \in Users :
        Begin(p, [Idle EXCEPT !.op = "claim", !.pc = "c_cfg", !.guild = GuildOf(x.chan),
                              !.user = u, !.task = x.task, !.msg = x.id])

ClaimConfig(p) ==
    /\ At(p, "claim", "c_cfg")
    /\ LET r == procs[p]
           cfg == get_channel_ids(guilds, r.guild)
       IN  IF RoutesMissing(cfg)
           THEN Finish(p, Say(r, "misconfigured"))
           ELSE Goto(p, "c_get", [r EXCEPT !.cfg = cfg]) /\ Sched(p, TRUE)
    /\ StoreSame /\ SurfaceSame /\ NoFault /\ Frame

\* db.get_task_by_id and the two early returns (no row; status not 'open').
ClaimGet(p) ==
    /\ At(p, "claim", "c_get")
    /\ LET r == procs[p]
           data == get_task_by_id(tasks, r.task)
           r2 == [r EXCEPT !.data = data]
       IN  IF data = NoRow
           THEN Goto(p, "c_drop", Say(r2, "gone")) /\ Sched(p, FALSE)
           ELSE IF data.status # "open"
           THEN IF data.open_message_id = r.msg
                THEN Goto(p, "c_drop", Say(r2, "already")) /\ Sched(p, FALSE)
                ELSE Finish(p, Say(r2, "already"))
           ELSE Goto(p, "c_cas", r2) /\ Sched(p, TRUE)
    /\ StoreSame /\ SurfaceSame /\ NoFault /\ Frame

\* try: await interaction.message.delete() / except HTTPException: pass
ClaimDrop(p) ==
    /\ At(p, "claim", "c_drop")
    /\ LET r == procs[p] IN
       \/ /\ IsLive(r.msg)
          /\ NoFault
          /\ Delete(r.msg)
          /\ Finish(p, r)
       \/ /\ IF IsLive(r.msg) THEN Fault ELSE NoFault
          /\ SurfaceSame
          /\ Finish(p, [r EXCEPT !.faulted = IsLive(r.msg) \/ @])
    /\ StoreSame /\ Frame

\* ClaimCas going on to the post whatever db.claim_task returned.
ClaimCasUnchecked(p) ==
    /\ At(p, "claim", "c_cas")
    /\ LET r == procs[p]
           c == claim_task(tasks, r.task, r.user, TRUE)
       IN  /\ tasks' = c.tasks
           /\ Goto(p, "c_reget", [r EXCEPT !.cas = IF c.ret THEN "won" ELSE "lost"])
           /\ Sched(p, TRUE)
           /\ won' = IF c.ret THEN [won EXCEPT ![r.task] = Append(@, r.user)] ELSE won
    /\ UNCHANGED <<seq, guilds>> /\ SurfaceSame /\ NoFault /\ FrameButWon

\* db.claim_task: the compare-and-swap on status.
ClaimCas(p) ==
    /\ At(p, "claim", "c_cas")
    /\ LET r == procs[p]
           c == claim_task(tasks, r.task, r.user, TRUE)
       IN  /\ tasks' = c.tasks
           /\ IF c.ret
              THEN /\ Goto(p, "c_reget", [r EXCEPT !.cas = "won"]) /\ Sched(p, TRUE)
                   /\ won' = [won EXCEPT ![r.task] = Append(@, r.user)]
              ELSE /\ Finish(p, Say([r EXCEPT !.cas = "lost"], "claim_failed"))
                   /\ won' = won
    /\ UNCHANGED <<seq, guilds>> /\ SurfaceSame /\ NoFault /\ FrameButWon

\* db.get_task_by_id again, then interaction.guild.get_channel(inprogress id).
ClaimChannel(p) ==
    /\ At(p, "claim", "c_reget")
    /\ LET r == procs[p] IN
       \/ /\ NoFault
          /\ LET data == get_task_by_id(tasks, r.task) IN
                IF data = NoRow
                THEN Finish(p, Say(r, "retrieve_failed"))
                ELSE Goto(p, "c_post", [r EXCEPT !.data = data]) /\ Sched(p, FALSE)
       \/ /\ Fault
          /\ Finish(p, Say([r EXCEPT !.faulted = TRUE], "channel_invalid"))
    /\ StoreSame /\ SurfaceSame /\ Frame

\* ClaimPost putting the task back to open when its send failed.
ClaimPostRollback(p) ==
    /\ At(p, "claim", "c_post")
    /\ LET r == procs[p] IN
       \/ /\ NoFault
          /\ Send(r.cfg.inprogress, "inprogress", r.task)
          /\ Goto(p, "c_set", [r EXCEPT !.new = nextMsg + 1,
                                        !.posts = @ \cup {nextMsg + 1}])
          /\ Sched(p, TRUE)
          /\ tasks' = tasks
       \/ /\ Fault
          /\ SurfaceSame
          /\ tasks' = IF Present(tasks, r.task)
                      THEN [tasks EXCEPT ![r.task] = [@ EXCEPT !.status = "open",
                                                               !.assignee = Null]]
                      ELSE tasks
          /\ Finish(p, Say([r EXCEPT !.faulted = TRUE], "post_failed"))
    /\ UNCHANGED <<seq, guilds>> /\ Frame

\* ClaimPost dropping the task's open reference when its send failed.
ClaimPostForgetsOpen(p) ==
    /\ At(p, "claim", "c_post")
    /\ LET r == procs[p] IN
       \/ /\ NoFault
          /\ Send(r.cfg.inprogress, "inprogress", r.task)
          /\ Goto(p, "c_set", [r EXCEPT !.new = nextMsg + 1,
                                        !.posts = @ \cup {nextMsg + 1}])
          /\ Sched(p, TRUE)
          /\ tasks' = tasks
       \/ /\ Fault
          /\ SurfaceSame
          /\ tasks' = update_task_message_id(tasks, r.task, "open", Null, TRUE).tasks
          /\ Finish(p, Say([r EXCEPT !.faulted = TRUE], "post_failed"))
    /\ UNCHANGED <<seq, guilds>> /\ Frame

\* await inprogress_channel.send / except discord.HTTPException.
ClaimPost(p) ==
    /\ At(p, "claim", "c_post")
    /\ LET r == procs[p] IN
       \/ /\ NoFault
          /\ Send(r.cfg.inprogress, "inprogress", r.task)
          /\ Goto(p, "c_set", [r EXCEPT !.new = nextMsg + 1,
                                        !.posts = @ \cup {nextMsg + 1}])
          /\ Sched(p, TRUE)
       \/ /\ Fault
          /\ SurfaceSame
          /\ Finish(p, Say([r EXCEPT !.faulted = TRUE], "post_failed"))
    /\ StoreSame /\ Frame

\* db.update_task_message_id(task_id, 'inprogress', id); the result is not read.
ClaimSetRef(p) ==
    /\ At(p, "claim", "c_set")
    /\ LET r == procs[p] IN
       \/ /\ NoFault
          /\ tasks' = update_task_message_id(tasks, r.task, "inprogress", r.new, TRUE).tasks
          /\ Goto(p, "c_clr", r) /\ Sched(p, TRUE)
       \/ /\ Fault
          /\ tasks' = update_task_message_id(tasks, r.task, "inprogress", r.new, FALSE).tasks
          /\ Goto(p, "c_clr", [r EXCEPT !.faulted = TRUE]) /\ Sched(p, TRUE)
    /\ UNCHANGED <<seq, guilds>> /\ SurfaceSame /\ Frame

\* ClaimClearRef without its store call.
ClaimClearRefSkipped(p) ==
    /\ At(p, "claim", "c_clr")
    /\ Goto(p, "c_del", procs[p]) /\ Sched(p, FALSE)
    /\ StoreSame /\ SurfaceSame /\ NoFault /\ Frame

\* db.update_task_message_id(task_id, 'open', None); the result is not read.
ClaimClearRef(p) ==
    /\ At(p, "claim", "c_clr")
    /\ LET r == procs[p] IN
       \/ /\ NoFault
          /\ tasks' = update_task_message_id(tasks, r.task, "open", Null, TRUE).tasks
          /\ Goto(p, "c_del", r) /\ Sched(p, FALSE)
       \/ /\ Fault
          /\ tasks' = update_task_message_id(tasks, r.task, "open", Null, FALSE).tasks
          /\ Goto(p, "c_del", [r EXCEPT !.faulted = TRUE]) /\ Sched(p, FALSE)
    /\ UNCHANGED <<seq, guilds>> /\ SurfaceSame /\ Frame

\* await interaction.message.delete(); a failure is only logged.
ClaimDelete(p) ==
    /\ At(p, "claim", "c_del")
    /\ LET r == procs[p] IN
       \/ /\ IsLive(r.msg)
          /\ NoFault
          /\ Delete(r.msg)
          /\ Finish(p, Say(r, "claimed"))
       \/ /\ IF IsLive(r.msg) THEN Fault ELSE NoFault
          /\ SurfaceSame
          /\ Finish(p, Say([r EXCEPT !.faulted = IsLive(r.msg) \/ @], "claimed"))
    /\ StoreSame /\ Frame

ClaimButton(p) ==
    \/ ClaimStart(p) \/ ClaimConfig(p) \/ ClaimGet(p) \/ ClaimDrop(p) \/ ClaimCas(p)
    \/ ClaimChannel(p) \/ ClaimPost(p) \/ ClaimSetRef(p) \/ ClaimClearRef(p)
    \/ ClaimDelete(p)


\* ------------------------------------------ views.py: CompleteButton.callback

CompleteStart(p) ==
    \E x \in Buttons("inprogress"), u \in Users :
        Begin(p, [Idle EXCEPT !.op = "complete", !.pc = "k_get",
                              !.guild = GuildOf(x.chan), !.user = u, !.task = x.task,
                              !.msg = x.id])

\* CompleteGet without its two early returns.
CompleteGetUnchecked(p) ==
    /\ At(p, "complete", "k_get")
    /\ Goto(p, "k_cfg", [procs[p] EXCEPT !.data = get_task_by_id(tasks, procs[p].task)])
    /\ Sched(p, TRUE)
    /\ StoreSame /\ SurfaceSame /\ NoFault /\ Frame

\* db.get_task_by_id and the two early returns (no row; status not 'in_progress').
CompleteGet(p) ==
    /\ At(p, "complete", "k_get")
    /\ LET r == procs[p]
           data == get_task_by_id(tasks, r.task)
           r2 == [r EXCEPT !.data = data]
       IN  IF data = NoRow
           THEN Goto(p, "k_drop", Say(r2, "gone")) /\ Sched(p, FALSE)
           ELSE IF data.status # "in_progress"
           THEN IF data.inprogress_message_id = r.msg
                THEN Goto(p, "k_drop", Say(r2, "not_in_progress")) /\ Sched(p, FALSE)
                ELSE Finish(p, Say(r2, "not_in_progress"))
           ELSE Goto(p, "k_cfg", r2) /\ Sched(p, TRUE)
    /\ StoreSame /\ SurfaceSame /\ NoFault /\ Frame

\* try: await interaction.message.delete() / except HTTPException: pass
CompleteDrop(p) ==
    /\ At(p, "complete", "k_drop")
    /\ LET r == procs[p] IN
       \/ /\ IsLive(r.msg)
          /\ NoFault
          /\ Delete(r.msg)
          /\ Finish(p, r)
       \/ /\ IF IsLive(r.msg) THEN Fault ELSE NoFault
          /\ SurfaceSame
          /\ Finish(p, [r EXCEPT !.faulted = IsLive(r.msg) \/ @])
    /\ StoreSame /\ Frame

\* db.get_channel_ids, then interaction.guild.get_channel(completed id).
CompleteConfig(p) ==
    /\ At(p, "complete", "k_cfg")
    /\ LET r == procs[p]
           cfg == get_channel_ids(guilds, r.guild)
       IN  \/ /\ NoFault
              /\ IF cfg.completed # Null
                 THEN Goto(p, "k_log", [r EXCEPT !.cfg = cfg]) /\ Sched(p, FALSE)
                 ELSE Goto(p, "k_db", [r EXCEPT !.cfg = cfg]) /\ Sched(p, TRUE)
           \/ /\ cfg.completed # Null
              /\ Fault
              /\ Goto(p, "k_db", Say([r EXCEPT !.cfg = cfg, !.faulted = TRUE], "log_warning"))
              /\ Sched(p, FALSE)
    /\ StoreSame /\ SurfaceSame /\ Frame

\* await completed_channel.send; Forbidden and HTTPException only warn.
CompleteLog(p) ==
    /\ At(p, "complete", "k_log")
    /\ LET r == procs[p] IN
       \/ /\ NoFault
          /\ Send(r.cfg.completed, "completed", r.task)
          /\ Goto(p, "k_db", [r EXCEPT !.new = nextMsg + 1,
                                       !.posts = @ \cup {nextMsg + 1}])
          /\ Sched(p, TRUE)
       \/ /\ Fault
          /\ SurfaceSame
          /\ Goto(p, "k_db", Say([r EXCEPT !.faulted = TRUE], "log_warning"))
          /\ Sched(p, FALSE)
    /\ StoreSame /\ Frame

\* `if db.complete_task(self.task_id):` database.py defines complete_task_in_db
\* and no complete_task: the attribute lookup raises AttributeError, the
\* callback ends there and nothing after it runs.
CompleteDelete(p) ==
    /\ At(p, "complete", "k_db")
    /\ Finish(p, [procs[p] EXCEPT !.raised = TRUE])
    /\ StoreSame /\ SurfaceSame /\ NoFault /\ Frame

CompleteButton(p) ==
    \/ CompleteStart(p) \/ CompleteGet(p) \/ CompleteDrop(p) \/ CompleteConfig(p)
    \/ CompleteLog(p) \/ CompleteDelete(p)

\* --------------------------------------------- taskBot.py: resync_tasks_cmd

\* What a resync may change of the store, up to the identity of references:
\* per task its status and which of its two reference columns are set.
SlotMap(T) ==
    [t \in DOMAIN T |->
        IF Present(T, t)
        THEN <<T[t].status, T[t].open_message_id # Null, T[t].inprogress_message_id # Null>>
        ELSE <<"none">>]

ResyncStart(p) ==
    \E g \in Guilds :
        Begin(p, [Idle EXCEPT !.op = "resync", !.pc = "r_cfg", !.guild = g,
                              !.second = (prev = g),
                              !.pre = IF prev = g THEN SlotMap(tasks) ELSE <<>>])

\* db.get_channel_ids, the routes check, and bot.get_channel for both channels.
ResyncConfig(p) ==
    /\ At(p, "resync", "r_cfg")
    /\ LET r == procs[p]
           cfg == get_channel_ids(guilds, r.guild)
       IN  \/ /\ NoFault
              /\ IF RoutesMissing(cfg)
                 THEN Finish(p, Say(r, "misconfigured"))
                 ELSE Goto(p, "r_list", [r EXCEPT !.cfg = cfg, !.phase = "open"])
                      /\ Sched(p, TRUE)
           \/ /\ ~RoutesMissing(cfg)
              /\ Fault
              /\ Finish(p, Say([r EXCEPT !.faulted = TRUE], "channel_invalid"))
    /\ StoreSame /\ SurfaceSame /\ Frame

\* StatusOf listing the open rows in both loops.
StatusOfOpenOnly(phase) == "open"

StatusOf(phase) == IF phase = "open" THEN "open" ELSE "in_progress"
OtherPhase(phase) == IF phase = "open" THEN "inprogress" ELSE "open"

\* db.get_tasks_by_status: the rows of one status class, as read now.
ResyncList(p) ==
    /\ At(p, "resync", "r_list")
    /\ LET r == procs[p]
           ids == get_tasks_by_status(tasks, r.guild, StatusOf(r.phase))
       IN  Goto(p, "r_next",
                [r EXCEPT !.todo = {[task |-> t, old |-> tasks[t][MessageColumn(r.phase)]]
                                     : t \in ids}])
           /\ Sched(p, TRUE)
    /\ StoreSame /\ SurfaceSame /\ NoFault /\ Frame

\* The for loop: the next row of the listing, in whatever order it came; after
\* the open rows the in-progress rows, after those the summary.
ResyncNext(p) ==
    /\ At(p, "resync", "r_next")
    /\ LET r == procs[p] IN
          IF r.todo = {}
          THEN IF r.phase = "open"
               THEN Goto(p, "r_list", [r EXCEPT !.phase = "inprogress"]) /\ Sched(p, TRUE)
               ELSE Finish(p, Say(r, "summary"))
          ELSE \E it \in r.todo :
                  LET r2 == [r EXCEPT !.todo = @ \ {it}, !.cur = it.task, !.old = it.old]
                  IN  Goto(p, IF it.old # Null THEN "r_fetch" ELSE "r_post", r2)
                      /\ Sched(p, FALSE)
    /\ StoreSame /\ SurfaceSame /\ NoFault /\ Frame

\* await channel.fetch_message(old id); await old_msg.delete(); NotFound and
\* Forbidden are caught, any other HTTPException leaves the command.
ResyncDeleteOld(p) ==
    /\ At(p, "resync", "r_fetch")
    /\ LET r == procs[p]
           found == fetch_message(r.cfg[r.phase], r.old)
       IN  \/ /\ found
              /\ NoFault
              /\ Delete(r.old)
              /\ Goto(p, "r_post", r) /\ Sched(p, FALSE)
           \/ /\ IF found THEN Fault ELSE NoFault
              /\ SurfaceSame
              /\ Goto(p, "r_post", [r EXCEPT !.faulted = found \/ @]) /\ Sched(p, FALSE)
           \/ /\ Fault
              /\ SurfaceSame
              /\ Finish(p, Say([r EXCEPT !.faulted = TRUE, !.raised = TRUE],
                               "unexpected_error"))
    /\ StoreSame /\ Frame

\* ResyncPost going on to the link with the previous iteration's message when
\* its own send failed.
ResyncPostStale(p) ==
    /\ At(p, "resync", "r_post")
    /\ LET r == procs[p] IN
       \/ /\ NoFault
          /\ Send(r.cfg[r.phase], r.phase, r.cur)
          /\ Goto(p, "r_link", [r EXCEPT !.new = nextMsg + 1,
                                         !.posts = @ \cup {nextMsg + 1}])
          /\ Sched(p, TRUE)
       \/ /\ Fault
          /\ SurfaceSame
          /\ Goto(p, IF r.new # Null THEN "r_link" ELSE "r_next",
                  [r EXCEPT !.faulted = TRUE, !.errors = @ \cup {r.cur}])
          /\ Sched(p, TRUE)
    /\ StoreSame /\ Frame

\* await channel.send inside try / except Exception.
ResyncPost(p) ==
    /\ At(p, "resync", "r_post")
    /\ LET r == procs[p] IN
       \/ /\ NoFault
          /\ Send(r.cfg[r.phase], r.phase, r.cur)
          /\ Goto(p, "r_link", [r EXCEPT !.new = nextMsg + 1,
                                         !.posts = @ \cup {nextMsg + 1}])
          /\ Sched(p, TRUE)
       \/ /\ Fault
          /\ SurfaceSame
          /\ Goto(p, "r_next", [r EXCEPT !.faulted = TRUE, !.errors = @ \cup {r.cur}])
          /\ Sched(p, TRUE)
    /\ StoreSame /\ Frame

\* `if db.update_task_message_id(task_id, <status>, new_message.id):`
ResyncLink(p) ==
    /\ At(p, "resync", "r_link")
    /\ LET r == procs[p] IN
       \/ /\ NoFault
          /\ LET u == update_task_message_id(tasks, r.cur, r.phase, r.new, TRUE) IN
                /\ tasks' = u.tasks
                /\ IF u.ret
                   THEN Goto(p, "r_clear", r) /\ Sched(p, TRUE)
                   ELSE Goto(p, "r_unpost", [r EXCEPT !.errors = @ \cup {r.cur}])
                        /\ Sched(p, FALSE)
       \/ /\ Fault
          /\ tasks' = update_task_message_id(tasks, r.cur, r.phase, r.new, FALSE).tasks
          /\ Goto(p, "r_unpost", [r EXCEPT !.faulted = TRUE, !.errors = @ \cup {r.cur}])
          /\ Sched(p, FALSE)
    /\ UNCHANGED <<seq, guilds>> /\ SurfaceSame /\ Frame

\* ResyncClear clearing the column that was just linked.
ResyncClearSameSlot(p) ==
    /\ At(p, "resync", "r_clear")
    /\ LET r == procs[p]
           r2 == IF r.phase = "open"
                 THEN [r EXCEPT !.resynced_open = @ \cup {r.cur}]
                 ELSE [r EXCEPT !.resynced_inprogress = @ \cup {r.cur}]
       IN  /\ tasks' = update_task_message_id(tasks, r.cur, r.phase, Null, TRUE).tasks
           /\ Goto(p, "r_next", r2) /\ Sched(p, TRUE)
    /\ UNCHANGED <<seq, guilds>> /\ SurfaceSame /\ NoFault /\ Frame

\* db.update_task_message_id(task_id, <other status>, None); count the task.
ResyncClear(p) ==
    /\ At(p, "resync", "r_clear")
    /\ LET r == procs[p]
           r2 == IF r.phase = "open"
                 THEN [r EXCEPT !.resynced_open = @ \cup {r.cur}]
                 ELSE [r EXCEPT !.resynced_inprogress = @ \cup {r.cur}]
       IN
       \/ /\ NoFault
          /\ tasks' = update_task_message_id(tasks, r.cur, OtherPhase(r.phase), Null,
                                             TRUE).tasks
          /\ Goto(p, "r_next", r2) /\ Sched(p, TRUE)
       \/ /\ Fault
          /\ tasks' = update_task_message_id(tasks, r.cur, OtherPhase(r.phase), Null,
                                             FALSE).tasks
          /\ Goto(p, "r_next", [r2 EXCEPT !.faulted = TRUE]) /\ Sched(p, TRUE)
    /\ UNCHANGED <<seq, guilds>> /\ SurfaceSame /\ Frame

\* ResyncUnpost without the `await new_message.delete()` of the else branch.
ResyncUnpostSkipped(p) ==
    /\ At(p, "resync", "r_unpost")
    /\ Goto(p, "r_next", procs[p]) /\ Sched(p, TRUE)
    /\ StoreSame /\ SurfaceSame /\ NoFault /\ Frame

\* await new_message.delete() in the else branch, still inside the try.
ResyncUnpost(p) ==
    /\ At(p, "resync", "r_unpost")
    /\ LET r == procs[p] IN
       \/ /\ IsLive(r.new)
          /\ NoFault
          /\ Delete(r.new)
          /\ Goto(p, "r_next", r) /\ Sched(p, TRUE)
       \/ /\ IF IsLive(r.new) THEN Fault ELSE NoFault
          /\ SurfaceSame
          /\ Goto(p, "r_next", [r EXCEPT !.faulted = TRUE]) /\ Sched(p, TRUE)
    /\ StoreSame /\ Frame

resync_tasks_cmd(p) ==
    \/ ResyncStart(p) \/ ResyncConfig(p) \/ ResyncList(p) \/ ResyncNext(p)
    \/ ResyncDeleteOld(p) \/ ResyncPost(p) \/ ResyncLink(p) \/ ResyncClear(p)
    \/ ResyncUnpost(p)

\* ------------------------------------------------- taskBot.py: /setup <slot>

\* set_open_channel_cmd, set_inprogress_channel_cmd, set_completed_channel_cmd.
Setup ==
    /\ running = 0
    /\ ops < deploy.ops
    /\ ops' = ops + 1
    /\ \E g \in Guilds, slot \in Slots :
          guilds' = set_channel(guilds, g, slot, ChannelFor(g, slot), TRUE).guilds
    /\ prev' = 0
    /\ UNCHANGED <<tasks, seq, live, nextMsg, procs, running, deploy, faults, last, won>>

\* ------------------------------------------- removal outside the handlers

\* db.remove_task_by_message_id for a stored message id: the store's utility
\* for a task whose message was deleted by hand (no handler calls it with a
\* stored id; the on_message_delete hook of taskBot.py is commented out).
Discard ==
    /\ running = 0
    /\ ops < deploy.ops
    /\ ops' = ops + 1
    /\ \E m \in StoredRefs(tasks) :
          /\ tasks' = remove_task_by_message_id(tasks, m, TRUE).tasks
    /\ prev' = 0
    /\ UNCHANGED <<seq, guilds, live, nextMsg, procs, running, deploy, faults, last, won>>

\* db.complete_task_in_db for an in_progress task, called directly: the delete
\* of a completion (the Complete button is written to make it, and stops one
\* line short of it).
CompleteInDb ==
    /\ running = 0
    /\ ops < deploy.ops
    /\ ops' = ops + 1
    /\ \E t \in TaskIds :
          /\ Present(tasks, t) /\ tasks[t].status = "in_progress"
          /\ tasks' = complete_task_in_db(tasks, t, TRUE).tasks
    /\ prev' = 0
    /\ UNCHANGED <<seq, guilds, live, nextMsg, procs, running, deploy, faults, last, won>>

\* db.cleanup_guild_data: the workspace is torn down.
Teardown ==
    /\ running = 0
    /\ ops < deploy.ops
    /\ ops' = ops + 1
    /\ \E g \in Guilds :
          /\ guilds[g].row
          /\ LET c == cleanup_guild_data(tasks, guilds, g, TRUE) IN
                tasks' = c.tasks /\ guilds' = c.guilds
    /\ prev' = 0
    /\ UNCHANGED <<seq, live, nextMsg, procs, running, deploy, faults, last, won>>

\* -------------------------------------------------------- specifications

NoCall == [op |-> "none"]

Configured(g, withLog) ==
    [open |-> ChannelFor(g, "open"), inprogress |-> ChannelFor(g, "inprogress"),
     completed |-> IF withLog THEN ChannelFor(g, "completed") ELSE Null, row |-> TRUE]

\* The state after n successful /addtask in guild 1 (tasks 1..n, open messages
\* 1..n) followed by a claim by user 2 of each task of `claimed`, in id order.
\* The claims of `stalled` lost their in-progress post (the task is in_progress
\* and still holds its open message); the others went through (in-progress
\* messages n+1.., the open messages deleted).
Rank(S, t) == Cardinality({u \in S : u <= t})
AfterRow(n, claimed, stalled, t) ==
    IF t > n THEN NoRow
    ELSE IF t \in stalled
    THEN [Row(1, 1) EXCEPT !.status = "in_progress", !.assignee = 2,
                           !.open_message_id = t]
    ELSE IF t \in claimed
    THEN [Row(1, 1) EXCEPT !.status = "in_progress", !.assignee = 2,
                           !.inprogress_message_id = n + Rank(claimed \ stalled, t)]
    ELSE [Row(1, 1) EXCEPT !.open_message_id = t]
AfterLive(n, claimed, stalled) ==
    {Message(t, ChannelFor(1, "open"), "open", t) : t \in (1 .. n) \ (claimed \ stalled)}
    \cup {Message(n + Rank(claimed \ stalled, t), ChannelFor(1, "inprogress"),
                  "inprogress", t) : t \in claimed \ stalled}

InitAfter(n, claimed, stalled, withLog) ==
    /\ tasks = [t \in TaskIds |-> AfterRow(n, claimed, stalled, t)]
    /\ seq = n
    /\ guilds = [g \in Guilds |-> IF g = 1 THEN Configured(g, withLog) ELSE NoGuild]
    /\ live = AfterLive(n, claimed, stalled)
    /\ nextMsg = n + Cardinality(claimed \ stalled)
    /\ procs = [p \in Procs |-> Idle]
    /\ running = 0
    /\ ops = 0
    /\ faults = 0
    /\ last = NoCall
    /\ won = [t \in TaskIds |-> IF t \in claimed THEN <<2>> ELSE <<>>]
    /\ prev = 0

InitBot(par, width, maxOps, withStalled) ==
    \E n \in 0 .. MaxTasks, withLog \in BOOLEAN :
        \E claimed \in SUBSET (1 .. n) :
            \E stalled \in (IF withStalled THEN SUBSET claimed ELSE {{}}) :
                /\ InitAfter(n, claimed, stalled, withLog)
                /\ deploy = [par |-> par, width |-> width, ops |-> maxOps,
                             msgs |-> n + Cardinality(claimed \ stalled) + MaxPosts,
                             faults |-> MaxFaults]

\* One event loop, handlers overlapping at their awaits.
Init == InitBot(FALSE, 2, MaxOps, FALSE)

Handlers(p) ==
    \/ add_task_cmd(p) \/ ClaimButton(p) \/ CompleteButton(p) \/ resync_tasks_cmd(p)
    \/ Return(p)

Next == Setup \/ Discard \/ Teardown \/ \E p \in Procs : Handlers(p)

Spec == Init /\ [][Next]_vars

\* /addtask only, one at a time.
InitCreate == InitBot(FALSE, 1, MaxSeqOps, FALSE)
NextCreate == \E p \in Procs : add_task_cmd(p) \/ Return(p)
SpecCreate == InitCreate /\ [][NextCreate]_vars

\* Claims only, racing for the same tasks, on one event loop or on parallel
\* workers that share the database file.
InitClaims == \E par \in BOOLEAN : InitBot(par, 2, MaxOps, FALSE)
NextClaims == \E p \in Procs : ClaimButton(p) \/ Return(p)
SpecClaims == InitClaims /\ [][NextClaims]_vars

\* Completions only, overlapping, with tasks removed behind their messages.
InitComplete == InitBot(FALSE, 2, MaxOps, FALSE)
NextComplete == Discard \/ \E p \in Procs : CompleteButton(p) \/ Return(p)
SpecComplete == InitComplete /\ [][NextComplete]_vars

\* Resyncs only, one after the other, also over tasks whose claim lost its post.
InitResync == InitBot(FALSE, 1, MaxSeqOps, TRUE)
NextResync == \E p \in Procs : resync_tasks_cmd(p) \/ Return(p)
SpecResync == InitResync /\ [][NextResync]_vars

\* /addtask, Claim clicks and /resync_tasks one at a time, in guilds whose
\* routes are set, partly set, or removed again.
InitValidate == InitBot(FALSE, 1, MaxSeqOps, TRUE)
NextValidate ==
    \/ Setup
    \/ Teardown
    \/ \E p \in Procs : add_task_cmd(p) \/ ClaimButton(p) \/ resync_tasks_cmd(p) \/ Return(p)
SpecValidate == InitValidate /\ [][NextValidate]_vars

\* The store alone: database.py called directly, with any arguments.
Call(op, t, type, ref, who, ok, ret) ==
    [op |-> op, task |-> t, type |-> type, ref |-> ref, who |-> who, ok |-> ok,
     ret |-> ret]
StoreFrame == UNCHANGED <<live, nextMsg, procs, running, deploy, won, prev>>
StoreCall(ok) ==
    /\ ops < deploy.ops
    /\ ops' = ops + 1
    /\ IF ok THEN NoFault ELSE Fault
KnownRefs == 0 .. (nextMsg + 1)

CallAddTask ==
    /\ seq < MaxTasks
    /\ \E g \in Guilds, c \in Creators, ok \in BOOLEAN :
          /\ StoreCall(ok)
          /\ LET a == add_task(tasks, seq, g, c, ok) IN
                /\ tasks' = a.tasks
                /\ seq' = a.seq
                /\ last' = Call("add_task", a.ret, "", Null, c, ok, a.ret # Null)
    /\ UNCHANGED guilds /\ StoreFrame

CallUpdateMessageId ==
    /\ \E t \in TaskIds, type \in Slots, m \in KnownRefs, ok \in BOOLEAN :
          /\ StoreCall(ok)
          /\ LET u == update_task_message_id(tasks, t, type, m, ok) IN
                /\ tasks' = u.tasks
                /\ last' = Call("update_task_message_id", t, type, m, 0, ok, u.ret)
    /\ UNCHANGED <<seq, guilds>> /\ StoreFrame

CallClaimTask ==
    /\ \E t \in TaskIds, a \in Users, ok \in BOOLEAN :
          /\ StoreCall(ok)
          /\ LET c == claim_task(tasks, t, a, ok) IN
                /\ tasks' = c.tasks
                /\ last' = Call("claim_task", t, "", Null, a, ok, c.ret)
    /\ UNCHANGED <<seq, guilds>> /\ StoreFrame

CallCompleteTask ==
    /\ \E t \in TaskIds, ok \in BOOLEAN :
          /\ StoreCall(ok)
          /\ LET c == complete_task_in_db(tasks, t, ok) IN
                /\ tasks' = c.tasks
                /\ last' = Call("complete_task_in_db", t, "", Null, 0, ok, c.ret)
    /\ UNCHANGED <<seq, guilds>> /\ StoreFrame

CallRemoveByMessageId ==
    /\ \E m \in KnownRefs, ok \in BOOLEAN :
          /\ StoreCall(ok)
          /\ LET c == remove_task_by_message_id(tasks, m, ok) IN
                /\ tasks' = c.tasks
                /\ last' = Call("remove_task_by_message_id", 0, "", m, 0, ok, c.ret)
    /\ UNCHANGED <<seq, guilds>> /\ StoreFrame

CallCleanupGuild ==
    /\ \E g \in Guilds, ok \in BOOLEAN :
          /\ StoreCall(ok)
          /\ LET c == cleanup_guild_data(tasks, guilds, g, ok) IN
                /\ tasks' = c.tasks
                /\ guilds' = c.guilds
                /\ last' = Call("cleanup_guild_data", 0, "", Null, g, ok, TRUE)
    /\ UNCHANGED seq /\ StoreFrame

CallSetChannel ==
    /\ \E g \in Guilds, type \in Slots \cup {"open_channel"}, ok \in BOOLEAN :
          /\ StoreCall(ok)
          /\ LET c == set_channel(guilds, g, type, ChannelFor(g, type), ok) IN
                /\ guilds' = c.guilds
                /\ last' = Call("set_channel", 0, type, Null, g, ok, c.ret)
    /\ UNCHANGED <<tasks, seq>> /\ StoreFrame

InitStore == InitBot(TRUE, 0, MaxStoreOps, TRUE)
NextStore ==
    \/ CallAddTask \/ CallUpdateMessageId \/ CallClaimTask \/ CallCompleteTask
    \/ CallRemoveByMessageId \/ CallCleanupGuild \/ CallSetChannel
SpecStore == InitStore /\ [][NextStore]_vars

\* The store's lifecycle calls alone: rows inserted, claimed and deleted.
InitLifecycle == InitStore
NextLifecycle == CallAddTask \/ CallClaimTask \/ CallCompleteTask
SpecLifecycle == InitLifecycle /\ [][NextLifecycle]_vars

\* The store's inserts and deletes alone: ids handed out between removals.
InitIds == InitStore
NextIds == CallAddTask \/ CallCompleteTask \/ CallRemoveByMessageId \/ CallCleanupGuild
SpecIds == InitIds /\ [][NextIds]_vars

\* /resync_tasks run alone from its first line to its last, as a function of
\* the order in which get_tasks_by_status returned the rows and of the calls
\* that fail. A failing call is named by the task it is made for, so that one
\* and the same environment can be met in every order.
ResyncCalls == {"fetch_caught", "fetch_raised", "send", "link", "clear", "unpost"}
ResyncEnvs ==
    {B \in SUBSET [task : TaskIds, call : ResyncCalls] : Cardinality(B) <= MaxFaults}
Fails(B, t, call) == [task |-> t, call |-> call] \in B

\* The orders in which a listing can return a set of rows.
Orders(S) ==
    {o \in [1 .. Cardinality(S) -> S] : \A i, j \in DOMAIN o : o[i] = o[j] => i = j}

\* One pass of the loop body for the row t of the listing T0.
ResyncOneTask(S, T0, t, phase, cfg, B) ==
    LET old == T0[t][MessageColumn(phase)]
        found == \E x \in S.live : x.id = old /\ x.chan = cfg[phase]
        S1 == IF old # Null /\ found /\ ~Fails(B, t, "fetch_caught")
              THEN [S EXCEPT !.live = {x \in @ : x.id # old}]
              ELSE S
        m == S.nextMsg + 1
        S2 == [S1 EXCEPT !.nextMsg = m,
                         !.live = @ \cup {Message(m, cfg[phase], phase, t)}]
        u == update_task_message_id(S.tasks, t, phase, m, ~Fails(B, t, "link"))
        c == update_task_message_id(u.tasks, t, OtherPhase(phase), Null,
                                    ~Fails(B, t, "clear"))
    IN  IF old # Null /\ Fails(B, t, "fetch_raised")
        THEN [S EXCEPT !.raised = TRUE]
        ELSE IF Fails(B, t, "send")
        THEN [S1 EXCEPT !.errors = @ \cup {t}]
        ELSE IF u.ret
        THEN [S2 EXCEPT !.tasks = c.tasks, !.resynced = @ \cup {t}]
        ELSE [S2 EXCEPT !.errors = @ \cup {t},
                        !.live = IF Fails(B, t, "unpost") THEN @
                                 ELSE {x \in @ : x.id # m}]

\* `for task_data in ...:` over the rows in the order they came; an exception
\* that the body does not catch ends the command.
RECURSIVE ResyncLoop(_, _, _, _, _, _)
ResyncLoop(S, T0, order, phase, cfg, B) ==
    IF order = <<>> \/ S.raised
    THEN S
    ELSE ResyncLoop(ResyncOneTask(S, T0, Head(order), phase, cfg, B), T0, Tail(order),
                    phase, cfg, B)

\* The open rows in the order oOpen, then the in-progress rows in the order oInp.
resync_outcome(T, L, n, cfg, oOpen, oInp, B) ==
    LET S0 == [tasks |-> T, live |-> L, nextMsg |-> n, errors |-> {}, resynced |-> {},
               raised |-> FALSE]
        S1 == ResyncLoop(S0, T, oOpen, "open", cfg, B)
    IN  ResyncLoop(S1, S1.tasks, oInp, "inprogress", cfg, B)

\* What the store holds and what the command reports, references by column only.
ResyncResult(S) ==
    [slots |-> SlotMap(S.tasks), errors |-> S.errors, raised |-> S.raised]

ResyncInOrder ==
    /\ running = 0
    /\ ops < deploy.ops
    /\ ops' = ops + 1
    /\ \E g \in Guilds, B \in ResyncEnvs :
          LET cfg == get_channel_ids(guilds, g)
              open == get_tasks_by_status(tasks, g, "open")
              inp == get_tasks_by_status(tasks, g, "in_progress")
          IN  /\ ~RoutesMissing(cfg)
              /\ nextMsg + Cardinality(open) + Cardinality(inp) <= deploy.msgs
              /\ faults + Cardinality(B) <= deploy.faults
              /\ faults' = faults + Cardinality(B)
              /\ \E oOpen \in Orders(open), oInp \in Orders(inp) :
                    LET S == resync_outcome(tasks, live, nextMsg, cfg, oOpen, oInp, B)
                    IN  /\ tasks' = S.tasks
                        /\ live' = S.live
                        /\ nextMsg' = S.nextMsg
                        /\ last' = [op |-> "resync", guild |-> g, env |-> B,
                                    open |-> oOpen, inprogress |-> oInp,
                                    result |-> ResyncResult(S)]
    /\ UNCHANGED <<seq, guilds, procs, running, deploy, won, prev>>

\* One resync after the other, each in one of the orders its listings can have.
InitOrder == InitBot(FALSE, 0, MaxSeqOps, TRUE)
NextOrder == ResyncInOrder
SpecOrder == InitOrder /\ [][NextOrder]_vars

\* Resyncs only, one after the other, with both guilds set up and the tasks
\* spread over them: the state after n /addtask, each in the guild home[t], and
\* the claims of InitAfter, every message in a channel of its task's guild.
InitFrame ==
    \E n \in 0 .. MaxTasks :
        \E claimed \in SUBSET (1 .. n), home \in [TaskIds -> Guilds] :
            \E stalled \in SUBSET claimed :
                /\ \A t \in TaskIds : t > n => home[t] = 1
                /\ tasks = [t \in TaskIds |->
                              IF t > n THEN NoRow
                              ELSE [AfterRow(n, claimed, stalled, t)
                                       EXCEPT !.guild = home[t]]]
                /\ seq = n
                /\ guilds = [g \in Guilds |-> Configured(g, TRUE)]
                /\ live = {Message(x.id, ChannelFor(home[x.task], x.kind), x.kind, x.task)
                             : x \in AfterLive(n, claimed, stalled)}
                /\ nextMsg = n + Cardinality(claimed \ stalled)
                /\ procs = [p \in Procs |-> Idle]
                /\ running = 0
                /\ ops = 0
                /\ faults = 0
                /\ last = NoCall
                /\ won = [t \in TaskIds |-> IF t \in claimed THEN <<2>> ELSE <<>>]
                /\ prev = 0
                /\ deploy = [par |-> FALSE, width |-> 1, ops |-> MaxSeqOps,
                             msgs |-> n + Cardinality(claimed \ stalled) + MaxPosts,
                             faults |-> MaxFaults]
NextFrame == \E p \in Procs : resync_tasks_cmd(p) \/ Return(p)
SpecFrame == InitFrame /\ [][NextFrame]_vars

\* Claim clicks and /resync_tasks overlapping at their awaits on one event
\* loop, over tasks that are all open at the start.
InitRace ==
    \E n \in 1 .. MaxTasks, withLog \in BOOLEAN :
        /\ InitAfter(n, {}, {}, withLog)
        /\ deploy = [par |-> FALSE, width |-> 2, ops |-> MaxOps, msgs |-> n + MaxPosts,
                     faults |-> MaxFaults]
NextRace == \E p \in Procs : ClaimButton(p) \/ resync_tasks_cmd(p) \/ Return(p)
SpecRace == InitRace /\ [][NextRace]_vars

\* One resync at a time, with rows deleted from the store between its awaits.
InitRemoval == InitBot(FALSE, 1, MaxSeqOps, TRUE)
NextRemoval ==
    CompleteInDb \/ Discard \/ \E p \in Procs : resync_tasks_cmd(p) \/ Return(p)
SpecRemoval == InitRemoval /\ [][NextRemoval]_vars

\* Two /resync_tasks overlapping at their awaits on one event loop, also over
\* tasks whose claim lost its post.
InitOverlap == InitBot(FALSE, 2, MaxOps, TRUE)
NextOverlap == \E p \in Procs : resync_tasks_cmd(p) \/ Return(p)
SpecOverlap == InitOverlap /\ [][NextOverlap]_vars

\* ------------------------------------------------------------- properties

C2_CompleteGuarded ==
    [][\A p \in Procs :
          (/\ procs'[p].op = "complete"
           /\ procs'[p] # procs[p]
           /\ procs'[p].data # Unread
           /\ procs'[p].data.status # "in_progress")
          => /\ tasks' = tasks /\ seq' = seq /\ guilds' = guilds
             /\ procs'[p].resp \in {{"gone"}, {"not_in_progress"}}
             /\ procs'[p].posts = {}
             /\ ~procs'[p].raised]_vars

\* A completion ended on a task that had been removed behind its message.
C2_Witness ==
    \E p \in Procs :
        /\ procs[p].op = "complete" /\ procs[p].pc = "done"
        /\ procs[p].data = NoRow
        /\ procs[p].resp = {"gone"}
        /\ ~Present(tasks, procs[p].task)

\* C3: degraded completion. A completion of an in_progress task whose log to the
\* completed channel failed still deletes the task and ends without an error.
C3_DegradedCompletion ==
    \A p \in Procs :
        (/\ procs[p].op = "complete" /\ procs[p].pc = "done"
         /\ procs[p].data.status = "in_progress"
         /\ "log_warning" \in procs[p].resp)
        => /\ ~Present(tasks, procs[p].task)
           /\ ~procs[p].raised

\* C4: resync idempotence. A resync that runs right after a resync of the same
\* guild, both without any failure, leaves every task with the status it had
\* and with a reference in the same column as before; that column is the one of
\* the task's status and its message is on the surface.
C4_ResyncIdempotent ==
    \A p \in Procs :
        (procs[p].pc = "done" /\ procs[p].second /\ CleanResync(procs[p])) =>
           /\ SlotMap(tasks) = procs[p].pre
           /\ \A t \in TaskIds :
                 (Present(tasks, t) /\ tasks[t].guild = procs[p].guild) =>
                    LET slot == IF tasks[t].status = "open" THEN "open" ELSE "inprogress"
                    IN  /\ tasks[t][MessageColumn(slot)] # Null
                        /\ tasks[t][MessageColumn(OtherPhase(slot))] = Null
                        /\ Message(tasks[t][MessageColumn(slot)],
                                   ChannelFor(procs[p].guild, slot), slot, t) \in live

\* A second resync in a row ended, having re-posted an open and an in-progress task.
C4_Witness ==
    \E p \in Procs :
        /\ procs[p].pc = "done" /\ procs[p].second /\ CleanResync(procs[p])
        /\ procs[p].resynced_open # {}
        /\ procs[p].resynced_inprogress # {}

\* C5: reference uniqueness. In every reachable state no message id other than
\* NULL is stored by two different tasks, whichever of the two columns holds it.
C5_ReferenceUniqueness ==
    \A t, u \in TaskIds :
        (t # u /\ Present(tasks, t) /\ Present(tasks, u)) =>
           ({tasks[t].open_message_id, tasks[t].inprogress_message_id}
              \cap {tasks[u].open_message_id, tasks[u].inprogress_message_id})
           \subseteq {Null}

\* A resync re-linked an open task and an in-progress task, which now hold
\* references in different columns.
C5_Witness ==
    /\ \E t, u \in TaskIds :
          /\ t # u /\ Present(tasks, t) /\ Present(tasks, u)
          /\ tasks[t].open_message_id # Null
          /\ tasks[u].inprogress_message_id # Null
    /\ \E p \in Procs :
          /\ procs[p].op = "resync" /\ procs[p].pc = "done"
          /\ procs[p].resynced_open # {} /\ procs[p].resynced_inprogress # {}

\* C6: update_task_message_id called for an existing task with a message id that
\* another task stores in either column returns False and changes no row.
C6_RejectsConflict ==
    [][(/\ last'.op = "update_task_message_id"
        /\ ops' = ops + 1
        /\ last'.ref # Null
        /\ Present(tasks, last'.task)
        /\ \E u \in TaskIds :
              /\ u # last'.task /\ Present(tasks, u)
              /\ last'.ref \in {tasks[u].open_message_id, tasks[u].inprogress_message_id})
       => (last'.ret = FALSE /\ tasks' = tasks)]_vars

\* C7: create postcondition. An /addtask in a guild with both routes set, none
\* of whose calls failed, answers "added", has posted exactly one message, which
\* is the task's only message and is in the open channel, and leaves the row
\* open, unassigned, with that message as open reference and no in-progress one.
C7_CreatePostcondition ==
    \A p \in Procs :
        (/\ procs[p].op = "add" /\ procs[p].pc = "done"
         /\ ~RoutesMissing(procs[p].cfg)
         /\ ~procs[p].faulted)
        => LET r == procs[p] IN
              /\ r.resp = {"added"}
              /\ r.posts = {r.new}
              /\ {x \in live : x.task = r.task}
                    = {Message(r.new, r.cfg.open, "open", r.task)}
              /\ tasks[r.task] = [Row(r.guild, r.user) EXCEPT !.open_message_id = r.new]

\* An /addtask ran to its confirmation.
C7_Witness ==
    \E p \in Procs :
        /\ procs[p].op = "add" /\ procs[p].pc = "done"
        /\ ~procs[p].faulted
        /\ procs[p].resp = {"added"}
        /\ Present(tasks, procs[p].task)

\* C8: claim postcondition. A claim that won db.claim_task and none of whose
\* calls failed ends with the task in_progress, assigned to the claimer, its
\* in-progress reference the one message the claim posted (in the in-progress
\* channel), its open reference NULL and the clicked open message gone.
C8_ClaimPostcondition ==
    \A p \in Procs :
        (/\ procs[p].op = "claim" /\ procs[p].pc = "done"
         /\ procs[p].cas = "won"
         /\ ~procs[p].faulted)
        => LET r == procs[p] IN
              /\ r.resp = {"claimed"}
              /\ tasks[r.task].status = "in_progress"
              /\ tasks[r.task].assignee = r.user
              /\ r.posts = {r.new}
              /\ tasks[r.task].inprogress_message_id = r.new
              /\ Message(r.new, r.cfg.inprogress, "inprogress", r.task) \in live
              /\ tasks[r.task].open_message_id = Null
              /\ ~IsLive(r.msg)

\* A claim ran to its confirmation with no failure.
C8_Witness ==
    \E p \in Procs :
        /\ procs[p].op = "claim" /\ procs[p].pc = "done"
        /\ procs[p].cas = "won" /\ ~procs[p].faulted
        /\ procs[p].resp = {"claimed"}

\* C9: complete postcondition. A completion of an in_progress task ends with
\* the task absent from the store, with a log message posted when a completed
\* channel is set and the post did not fail, and without an error.
C9_CompletePostcondition ==
    \A p \in Procs :
        (/\ procs[p].op = "complete" /\ procs[p].pc = "done"
         /\ procs[p].data.status = "in_progress")
        => /\ ~Present(tasks, procs[p].task)
           /\ (procs[p].cfg.completed # Null /\ ~procs[p].faulted => procs[p].posts # {})
           /\ ~procs[p].raised

\* C10: a claim posts only after its own db.claim_task returned True. Every
\* message that appears in the in-progress channel is posted by an invocation
\* that had already won; an invocation that has not won (it found the task
\* already claimed, or lost the compare-and-swap) has posted nothing, and none
\* of its steps changes a task row.
C10_PostOnlyAfterOwnCas ==
    [][/\ \A x \in live' \ live :
             x.kind = "inprogress" =>
                \E p \in Procs : /\ procs[p].op = "claim" /\ procs[p].cas = "won"
                                 /\ procs[p].task = x.task
                                 /\ procs'[p].new = x.id
       /\ \A p \in Procs :
             (procs'[p].op = "claim" /\ procs'[p].cas # "won") =>
                /\ procs'[p].posts = {}
                /\ (procs'[p] # procs[p] => tasks' = tasks /\ live' \subseteq live)]_vars

\* A duplicate claim was turned away while the winner's message was posted.
C10_Witness ==
    \E p, q \in Procs :
        /\ procs[p].op = "claim" /\ procs[p].pc = "done"
        /\ procs[p].resp = {"already"} /\ procs[p].posts = {}
        /\ procs[q].op = "claim" /\ procs[q].task = procs[p].task
        /\ procs[q].cas = "won" /\ procs[q].posts # {}

\* C11: duplicate complete events are no-ops. However many completions are
\* delivered for one task, at most one log message for it appears in the
\* completed channel.
C11_DuplicateCompleteNoOp ==
    \A t \in TaskIds :
        Cardinality({x \in live : x.kind = "completed" /\ x.task = t}) <= 1

C13_ResyncHealsStalledClaim ==
    /\ [](\A p \in Procs :
            (procs[p].pc = "done" /\ CleanResync(procs[p])) =>
               \A t \in TaskIds :
                  (/\ Present(tasks, t)
                   /\ tasks[t].guild = procs[p].guild
                   /\ tasks[t].status = "in_progress")
                  => /\ tasks[t].inprogress_message_id # Null
                     /\ Message(tasks[t].inprogress_message_id,
                                ChannelFor(procs[p].guild, "inprogress"),
                                "inprogress", t) \in live
                     /\ tasks[t].open_message_id = Null
                     /\ tasks[t].assignee # Null)
    /\ [][\A t \in TaskIds :
             Present(tasks, t) =>
                /\ Present(tasks', t)
                /\ tasks'[t].status = tasks[t].status
                /\ tasks'[t].assignee = tasks[t].assignee]_vars

\* A resync re-posted a task whose claim had lost its post: the task's open
\* message is still on the surface and the task now holds an in-progress one.
C13_Witness ==
    \E p \in Procs :
        /\ procs[p].pc = "done" /\ CleanResync(procs[p])
        /\ \E t \in procs[p].resynced_inprogress :
              /\ \E x \in live : x.kind = "open" /\ x.task = t
              /\ tasks[t].status = "in_progress"
              /\ tasks[t].inprogress_message_id # Null
              /\ tasks[t].open_message_id = Null

\* C14: resync batch isolation. A resync that got past its route and channel
\* tests ends with the summary, whatever failed for a single task, having gone
\* through every task it listed in both status classes.
C14_ResyncBatchIsolation ==
    \A p \in Procs :
        (/\ procs[p].op = "resync" /\ procs[p].pc = "done"
         /\ ~RoutesMissing(procs[p].cfg))
        => /\ procs[p].resp = {"summary"}
           /\ procs[p].todo = {}
           /\ procs[p].phase = "inprogress"

\* C15: validation precedes mutation. When /addtask, a Claim click or
\* /resync_tasks reads the routes of a guild whose open or in-progress route is
\* missing, that step ends the invocation with the misconfigured answer and
\* changes neither the store nor the surface; the invocation has posted nothing.
C15_ValidationPrecedesMutation ==
    [][\A p \in Procs :
          LET g == procs[p].guild IN
          (/\ procs[p].pc \in {"a_cfg", "c_cfg", "r_cfg"}
           /\ procs'[p] # procs[p]
           /\ (~guilds[g].row \/ guilds[g].open = Null \/ guilds[g].inprogress = Null))
          => /\ procs'[p].pc = "done"
             /\ procs'[p].resp = {"misconfigured"}
             /\ procs'[p].posts = {}
             /\ tasks' = tasks /\ seq' = seq /\ guilds' = guilds
             /\ live' = live /\ nextMsg' = nextMsg]_vars

\* A Claim click was turned away in a guild whose routes had been removed, and
\* the task and its message are as they were.
C15_Witness ==
    \E p \in Procs :
        /\ procs[p].op = "claim" /\ procs[p].pc = "done"
        /\ procs[p].resp = {"misconfigured"}
        /\ ~guilds[procs[p].guild].row
        /\ IsLive(procs[p].msg)

\* C16: definite outcome. Every invocation that has ended has delivered an
\* outcome to its caller (the warning that the completion log could not be
\* posted announces one and is not one).
C16_DefiniteOutcome ==
    \A p \in Procs :
        procs[p].pc = "done" => (procs[p].resp \ {"log_warning"}) # {}

\* C17: in every reachable state each stored task that is open has no assignee,
\* each task without an assignee has no in-progress reference, and each
\* in_progress task has an assignee.
C17_StatusAssigneeRef ==
    \A t \in TaskIds :
        Present(tasks, t) =>
           /\ (tasks[t].status = "open" => tasks[t].assignee = Null)
           /\ (tasks[t].assignee = Null => tasks[t].inprogress_message_id = Null)
           /\ (tasks[t].status = "in_progress" => tasks[t].assignee # Null)

\* A claim has just moved a task to in_progress while another task is open.
C17_Witness ==
    /\ \E p \in Procs :
          /\ procs[p].op = "claim" /\ procs[p].pc = "done"
          /\ procs[p].resp = {"claimed"}
          /\ tasks[procs[p].task].status = "in_progress"
          /\ tasks[procs[p].task].assignee = procs[p].user
          /\ tasks[procs[p].task].inprogress_message_id # Null
    /\ \E t \in TaskIds : Present(tasks, t) /\ tasks[t].status = "open"

\* C18: at most one reference per task. In every reachable state, those between
\* two store writes of one handler included, no task has both its open and its
\* in-progress reference set.
C18_AtMostOneRef ==
    \A t \in TaskIds :
        Present(tasks, t) =>
           (tasks[t].open_message_id = Null \/ tasks[t].inprogress_message_id = Null)

\* C19: the lifecycle is monotone. In every step: a row that appears is a new
\* id, open and unassigned; a status changes only from open to in_progress, and
\* only in the step in which a claim's db.claim_task returns True, which sets
\* the claimer as assignee; an in_progress row stays in_progress and an
\* assignee stays as set for as long as the row exists; the id of a removed
\* row is never used again.
C19_LifecycleMonotone ==
    [][\A t \in TaskIds :
          /\ (~Present(tasks, t) /\ Present(tasks', t)) =>
                /\ t = seq + 1 /\ seq' = t
                /\ tasks'[t].status = "open"
                /\ tasks'[t].assignee = Null
          /\ (Present(tasks, t) /\ Present(tasks', t)) =>
                /\ (tasks[t].status = "in_progress" => tasks'[t].status = "in_progress")
                /\ (tasks[t].assignee # Null => tasks'[t].assignee = tasks[t].assignee)
                /\ (tasks'[t].status # tasks[t].status =>
                       \E p \in Procs :
                          /\ procs[p].op = "claim" /\ procs[p].pc = "c_cas"
                          /\ procs[p].task = t
                          /\ procs'[p].cas = "won"
                          /\ tasks'[t].assignee = procs[p].user)
          /\ seq' >= seq]_vars

\* A claim committed and then lost its post: the task is still in_progress and
\* still assigned to the claimer.
C19_Witness ==
    \E p \in Procs :
        /\ procs[p].op = "claim" /\ procs[p].pc = "done"
        /\ procs[p].faulted /\ procs[p].cas = "won"
        /\ procs[p].posts = {}
        /\ tasks[procs[p].task].status = "in_progress"
        /\ tasks[procs[p].task].assignee = procs[p].user

\* C20: db.claim_task is a compare-and-swap. A call returns True exactly when
\* the row exists with status open (and the database answered), and then the
\* only change is that row's status, now in_progress, and its assignee, now the
\* caller's; in every other case it returns False and no row, counter or guild
\* changes, so an assignee already set stays.
C20_ClaimIsCompareAndSwap ==
    [][(last'.op = "claim_task" /\ ops' = ops + 1) =>
          LET t == last'.task IN
             /\ seq' = seq /\ guilds' = guilds
             /\ IF last'.ok /\ Present(tasks, t) /\ tasks[t].status = "open"
                THEN /\ last'.ret = TRUE
                     /\ tasks' = [tasks EXCEPT ![t] = [@ EXCEPT !.status = "in_progress",
                                                               !.assignee = last'.who]]
                ELSE /\ last'.ret = FALSE
                     /\ tasks' = tasks]_vars

\* claim_task was called by another user for a task already in_progress: it
\* returned False and the assignee is the earlier one.
C20_Witness ==
    /\ last.op = "claim_task"
    /\ last.ok /\ ~last.ret
    /\ Present(tasks, last.task)
    /\ tasks[last.task].status = "in_progress"
    /\ tasks[last.task].assignee # last.who

\* C21: read-your-writes on one task. When db.claim_task returned True for a
\* task and the very next store call is db.complete_task_in_db for that task
\* (and the database answers), the delete sees the claim: it returns True and
\* the row is gone, every other row unchanged.
C21_ClaimThenDeleteSeesClaim ==
    [][(/\ last.op = "claim_task" /\ last.ret
        /\ last'.op = "complete_task_in_db" /\ last'.task = last.task
        /\ ops' = ops + 1
        /\ last'.ok)
       => /\ last'.ret
          /\ ~Present(tasks', last.task)
          /\ \A u \in TaskIds \ {last.task} : tasks'[u] = tasks[u]]_vars

\* Two store calls were made on a task that was open before them and never
\* claimed before: the second was complete_task_in_db, it returned True and the
\* row is gone, so the first was the claim_task that made the row in_progress.
C21_Witness ==
    /\ ops = 2
    /\ last.op = "complete_task_in_db"
    /\ last.ok /\ last.ret
    /\ last.task <= seq
    /\ won[last.task] = <<>>
    /\ ~Present(tasks, last.task)

\* C22: task ids are unique and handed out in increasing order. The counter of
\* the table is at least every id in it and never goes down, whatever is
\* deleted; every add_task that returns an id returns one above the counter,
\* hence above every id returned before and not in the table, and the rows
\* already there keep their ids and contents.
C22_IdsNeverReused ==
    /\ [](\A t \in TaskIds : Present(tasks, t) => t <= seq)
    /\ [][/\ seq' >= seq
          /\ (last'.op = "add_task" /\ ops' = ops + 1 /\ last'.ret)
             => /\ last'.task > seq
                /\ last'.task = seq'
                /\ ~Present(tasks, last'.task)
                /\ Present(tasks', last'.task)
                /\ \A u \in TaskIds \ {last'.task} : tasks'[u] = tasks[u]]_vars

\* Task 1 was the only task and was deleted; the add_task after that returned
\* id 2, not the free id 1.
C22_Witness ==
    /\ ops = 2
    /\ last.op = "add_task" /\ last.ret
    /\ last.task = 2
    /\ ~Present(tasks, 1)
    /\ Present(tasks, 2)

\* C23: resync makes the surface match the store. When a resync has ended with
\* its summary, no failure and no recorded error, the messages live on the
\* guild's open and in-progress channels are exactly the messages that the
\* guild's tasks refer to.
C23_SurfaceMatchesStore ==
    \A p \in Procs :
        (procs[p].pc = "done" /\ CleanResync(procs[p])) =>
            LET g == procs[p].guild
                shown == {x.id : x \in {y \in live :
                                          y.chan \in {ChannelFor(g, "open"),
                                                      ChannelFor(g, "inprogress")}}}
                stored == StoredRefs([t \in TaskIds |->
                                        IF Present(tasks, t) /\ tasks[t].guild = g
                                        THEN tasks[t] ELSE NoRow])
            IN  shown = stored

\* C24: resync cleans up after a rejected link. When update_task_message_id
\* does not accept the message resync has just posted for a task, the store is
\* left as it was, the task is recorded in errors and not counted as resynced,
\* and the next thing resync does is delete that message; unless that delete
\* itself fails, the message is gone before resync turns to the next task.
C24_ResyncUnpostsRejectedLink ==
    [][\A p \in Procs :
          LET r == procs[p]
              col == MessageColumn(r.phase)
          IN  /\ (/\ r.op = "resync" /\ r.pc = "r_link" /\ procs'[p].pc # "r_link"
                  /\ Present(tasks, r.cur)
                  /\ tasks'[r.cur][col] # r.new)
                 => /\ procs'[p].pc = "r_unpost"
                    /\ tasks' = tasks
                    /\ r.cur \in procs'[p].errors
                    /\ procs'[p].new = r.new
                    /\ IsLive(r.new)
              /\ (/\ r.op = "resync" /\ r.pc = "r_unpost" /\ procs'[p].pc # "r_unpost"
                  /\ faults' = faults)
                 => /\ procs'[p].pc = "r_next"
                    /\ live' = {x \in live : x.id # r.new}
                    /\ r.cur \in procs'[p].errors
                    /\ r.cur \notin procs'[p].resynced_open
                    /\ r.cur \notin procs'[p].resynced_inprogress
                    /\ tasks' = tasks]_vars

\* A resync posted a message for a task, the link was rejected, and the message
\* has been deleted again: the task is in errors and does not refer to it.
C24_Witness ==
    \E p \in Procs :
        /\ procs[p].op = "resync" /\ procs[p].pc = "r_next"
        /\ procs[p].new # Null
        /\ procs[p].new \in procs[p].posts
        /\ procs[p].cur \in procs[p].errors
        /\ ~IsLive(procs[p].new)
        /\ Present(tasks, procs[p].cur)
        /\ tasks[procs[p].cur][MessageColumn(procs[p].phase)] # procs[p].new

\* C25: resync clears the other status's reference unconditionally. When
\* resync is through with a task for which it posted a message (the link was
\* stored or rejected, and the last call for the task did not fail), the
\* task's reference of the other status is null.
C25_ResyncClearsOtherRefAlways ==
    [][\A p \in Procs :
          LET r == procs[p] IN
             (/\ r.op = "resync" /\ r.pc \in {"r_clear", "r_unpost"}
              /\ procs'[p].pc = "r_next"
              /\ faults' = faults
              /\ Present(tasks', r.cur))
             => tasks'[r.cur][MessageColumn(OtherPhase(r.phase))] = Null]_vars

\* C26: resync does not depend on the order of the listing. Whatever order the
\* rows of each status class came in, a resync that meets the same failing
\* calls ends with the same tasks in the same statuses with a reference in the
\* same columns, and with the same recorded errors.
C26_ResyncOrderIrrelevant ==
    [][(last'.op = "resync" /\ ops' = ops + 1) =>
          LET cfg == get_channel_ids(guilds, last'.guild)
              open == get_tasks_by_status(tasks, last'.guild, "open")
              inp == get_tasks_by_status(tasks, last'.guild, "in_progress")
          IN  \A oOpen \in Orders(open), oInp \in Orders(inp) :
                 ResyncResult(resync_outcome(tasks, live, nextMsg, cfg, oOpen, oInp,
                                             last'.env))
                    = last'.result]_vars

\* C27: /addtask with a failed post leaves no task. When the command has
\* inserted the row and then answered "Task not created" because posting to
\* the open channel failed, the row it inserted is no longer in the table.
C27_FailedPostRemovesTask ==
    \A p \in Procs :
        (/\ procs[p].op = "add" /\ procs[p].pc = "done"
         /\ "not_created" \in procs[p].resp
         /\ procs[p].task # Null)
        => ~Present(tasks, procs[p].task)

\* C28: the frame of resync. No step of /resync_tasks inserts or deletes a
\* row, moves the id counter, touches the guilds table, or changes a row's
\* status, assignee, creator or guild; a step changes at most the two message
\* columns of one row, and that row belongs to the guild being resynced.
C28_ResyncFrame ==
    [][/\ seq' = seq
       /\ guilds' = guilds
       /\ \A t \in TaskIds :
             /\ Present(tasks', t) <=> Present(tasks, t)
             /\ Present(tasks, t) =>
                   /\ tasks'[t].status = tasks[t].status
                   /\ tasks'[t].assignee = tasks[t].assignee
                   /\ tasks'[t].creator = tasks[t].creator
                   /\ tasks'[t].guild = tasks[t].guild
             /\ tasks'[t] # tasks[t] =>
                   \E p \in Procs : /\ procs[p].op = "resync"
                                    /\ procs[p].cur = t
                                    /\ tasks[t].guild = procs[p].guild]_vars

\* A resync of one guild ended having re-posted a task there, while a task of
\* the other guild still holds the open message it had from the start.
C28_Witness ==
    \E p \in Procs :
        /\ procs[p].op = "resync" /\ procs[p].pc = "done"
        /\ procs[p].resynced_open \cup procs[p].resynced_inprogress # {}
        /\ \E t \in TaskIds :
              /\ Present(tasks, t)
              /\ tasks[t].guild # procs[p].guild
              /\ tasks[t].open_message_id = t
              /\ IsLive(t)

\* C29: discard by message reference. When a row holds the message id in its
\* open or in its in-progress column (and the database answers),
\* db.remove_task_by_message_id returns True and that one row, open or
\* in_progress, is gone while every other row is as it was; when no row holds
\* the id, the placeholder 0 and a never stored id included, it returns False
\* and no row changes. The id counter and the guilds table stay in both cases.
C29_DiscardByMessageRef ==
    [][(last'.op = "remove_task_by_message_id" /\ ops' = ops + 1) =>
          LET m == last'.ref
              holders == {t \in TaskIds :
                            /\ Present(tasks, t)
                            /\ m # Null
                            /\ m \in {tasks[t].open_message_id,
                                      tasks[t].inprogress_message_id}}
          IN  /\ seq' = seq /\ guilds' = guilds
              /\ Cardinality(holders) <= 1
              /\ IF last'.ok /\ holders # {}
                 THEN /\ last'.ret = TRUE
                      /\ \A t \in TaskIds :
                            tasks'[t] = IF t \in holders THEN NoRow ELSE tasks[t]
                 ELSE /\ last'.ret = FALSE
                      /\ tasks' = tasks]_vars

\* The one store call made was remove_task_by_message_id with the in-progress
\* message of a claimed task: it returned True and the row is gone.
C29_Witness ==
    /\ ops = 1
    /\ last.op = "remove_task_by_message_id"
    /\ last.ok /\ last.ret
    /\ \E t \in TaskIds :
          /\ t <= seq
          /\ won[t] # <<>>
          /\ ~Present(tasks, t)
          /\ \E x \in live : x.id = last.ref /\ x.kind = "inprogress" /\ x.task = t

\* C30: resync racing with a claim. When a claim has won a task and every
\* handler that was started has ended, none of them having met a failing call,
\* the task is in_progress with no open reference and with an in-progress
\* reference to a message that is live on the in-progress channel, however the
\* steps of the claim and of a resync of the guild were interleaved.
C30_ResyncClaimRace ==
    \A t \in TaskIds :
        (/\ won[t] # <<>>
         /\ faults = 0
         /\ \A p \in Procs : procs[p].pc \in {"idle", "done"})
        => /\ Present(tasks, t)
           /\ tasks[t].status = "in_progress"
           /\ tasks[t].assignee = won[t][1]
           /\ tasks[t].open_message_id = Null
           /\ tasks[t].inprogress_message_id # Null
           /\ Message(tasks[t].inprogress_message_id,
                      ChannelFor(tasks[t].guild, "inprogress"), "inprogress", t) \in live

\* A resync has ended that re-posted a task as open, then, the task having
\* been claimed in between, re-posted it as in-progress; the claim has ended
\* too and nothing failed.
C30_Witness ==
    \E p \in Procs, t \in TaskIds :
        /\ procs[p].op = "resync" /\ procs[p].pc = "done"
        /\ t \in procs[p].resynced_open
        /\ t \in procs[p].resynced_inprogress
        /\ won[t] # <<>>
        /\ faults = 0
        /\ \A q \in Procs \ {p} : procs[q].pc = "idle"

\* C31: resync racing with a completion. When resync is through with a row
\* that was deleted from the store after it was listed (and the last call for
\* it did not fail), the row is not counted as resynced in that status class
\* and the message resync posted for it is not on the surface.
C31_ResyncSkipsDeletedTask ==
    [][\A p \in Procs :
          LET r == procs[p] IN
             (/\ r.op = "resync" /\ r.pc \in {"r_clear", "r_unpost"}
              /\ procs'[p].pc = "r_next"
              /\ faults' = faults
              /\ ~Present(tasks', r.cur))
             => /\ r.cur \notin (IF r.phase = "open" THEN procs'[p].resynced_open
                                 ELSE procs'[p].resynced_inprogress)
                /\ \A x \in live' : x.id # r.new]_vars

\* C32: concurrent resyncs keep references live. When a resync has ended with
\* its summary, every other handler has ended too and no call failed in the
\* run, every task of the guild holds a reference in the column of its status
\* and none in the other, and the message referred to is live on the channel
\* of that status, however the steps of two resyncs were interleaved.
C32_OverlappingResyncsKeepRefsLive ==
    \A p \in Procs :
        (/\ procs[p].op = "resync" /\ procs[p].pc = "done"
         /\ procs[p].resp = {"summary"}
         /\ faults = 0
         /\ \A q \in Procs \ {p} : procs[q].pc = "idle")
        => \A t \in TaskIds :
              (Present(tasks, t) /\ tasks[t].guild = procs[p].guild) =>
                 LET slot == IF tasks[t].status = "open" THEN "open" ELSE "inprogress"
                 IN  /\ tasks[t][MessageColumn(slot)] # Null
                     /\ tasks[t][MessageColumn(OtherPhase(slot))] = Null
                     /\ Message(tasks[t][MessageColumn(slot)],
                                ChannelFor(procs[p].guild, slot), slot, t) \in live

\* Two resyncs overlapped and have both ended without a failure: each posted a
\* message for the same task in the same channel, so two such messages are
\* live, which resyncs run one after the other never leave.
C32_Witness ==
    \E p \in Procs :
        /\ procs[p].op = "resync" /\ procs[p].pc = "done"
        /\ procs[p].resp = {"summary"}
        /\ ops = 2 /\ faults = 0
        /\ \A q \in Procs \ {p} : procs[q].pc = "idle"
        /\ \E x, y \in live : x.id # y.id /\ x.task = y.task /\ x.kind = y.kind

====
